---- MODULE Spec2Model ----
(***************************************************************************)
(* Model of pegasus_qac/pqubit.py: the Pqubit descriptor of a Pegasus     *)
(* qubit (validation, linear index, coupling lookups), the tile geometry  *)
(* functions vert2horz / horz2vert, the shift-table coupling function     *)
(* internal_coupling, and the cycle of test_pqubit.                       *)
(*                                                                         *)
(* A state is one caller holding one Pqubit reference (self) and the       *)
(* outcome of the last call made on it.  Init is the state right after a   *)
(* constructor call; every method is one action.  A call that returns a    *)
(* Pqubit rebinds the reference to it (q = q.conn_x(...)).  Nothing in the *)
(* module catches an exception: a call that raises ends the run, with the  *)
(* reference as it was.                                                    *)
(***************************************************************************)
EXTENDS Integers, Sequences, FiniteSets, TLC

VARIABLES Pegasus0Shift, self, recv, call, ret, tpc

vars == <<Pegasus0Shift, self, recv, call, ret, tpc>>

(***************************************************************************)
(* Bounds of the model and program constants.                              *)
(***************************************************************************)
\* largest topology size m the constructor is called with
MaxM == 3

\* number of qubit offsets k per tile position (0 <= k <= 11), which is
\* also the length of Pegasus0Shift
NumSlots == 12

\* the module-level list Pegasus0Shift
ShiftTable == <<2, 2, 10, 10, 6, 6, 6, 6, 2, 2, 10, 10>>

\* constructor arguments the model draws from: every valid value of each
\* coordinate and one value on either side of its range
SizeInputs == 0..MaxM
OrientationInputs == 0..2
PerpInputs(m) == -1..m
SlotInputs == -1..NumSlots
ParInputs(m) == -1..(m - 1)

\* arguments of the coupling calls
DzInputs == {-1, 1}
DkClusterInputs == 0..3
DkInputs == -6..6
JInputs == 0..NumSlots
KwargsInputs == {"{}", "assert_valid=False"}

(***************************************************************************)
(* Values: messages, objects, results of a call.                           *)
(***************************************************************************)
\* the f-strings of _check_if_not_valid: the field named, the value
\* printed and the range printed
Msg(field, value, lo, hi) ==
    [field |-> field, value |-> value, lo |-> lo, hi |-> hi]

\* Python None in the place of a message
NoneStr == Msg("None", 0, 0, 0)

\* the attribute _check_str was never assigned
NoAttr == Msg("<no attribute>", 0, 0, 0)

\* no Pqubit object (the constructor raised)
NoObj == [cls |-> "NoneType"]

Returned(kind, obj, val) ==
    [kind |-> kind, obj |-> obj, val |-> val, msg |-> NoneStr]

Raised(kind, msg) ==
    [kind |-> kind, obj |-> NoObj, val |-> 0, msg |-> msg]

\* **kwargs passed on to Pqubit(...): assert_valid keeps its default True
\* unless the caller overrides it
assert_valid_of(kwargs) == kwargs # "assert_valid=False"

Exceptions == {"ValueError", "RuntimeError", "IndexError", "AttributeError"}

(***************************************************************************)
(* Pqubit._check_if_not_valid                                              *)
(***************************************************************************)
\* _check_if_not_valid with the upper end of z taken as m - 1
check_if_not_valid_z(m, u, w, k, z) ==
    IF ~(m >= 1) THEN Msg("m", m, 1, 0)
    ELSE IF ~(u = 0 \/ u = 1) THEN Msg("u", u, 0, 1)
    ELSE IF ~(0 <= w /\ w <= m - 1) THEN Msg("w", w, 0, m - 1)
    ELSE IF ~(0 <= k /\ k <= 11) THEN Msg("k", k, 0, 11)
    ELSE IF ~(0 <= z /\ z <= m - 1) THEN Msg("z", z, 0, m - 1)
    ELSE NoneStr

\* _check_if_not_valid with the rule of k tested before the rule of w
check_if_not_valid_k_first(m, u, w, k, z) ==
    IF ~(m >= 1) THEN Msg("m", m, 1, 0)
    ELSE IF ~(u = 0 \/ u = 1) THEN Msg("u", u, 0, 1)
    ELSE IF ~(0 <= k /\ k <= 11) THEN Msg("k", k, 0, 11)
    ELSE IF ~(0 <= w /\ w <= m - 1) THEN Msg("w", w, 0, m - 1)
    ELSE IF ~(0 <= z /\ z <= m - 2) THEN Msg("z", z, 0, m - 2)
    ELSE NoneStr

check_if_not_valid(m, u, w, k, z) ==
    IF ~(m >= 1) THEN Msg("m", m, 1, 0)
    ELSE IF ~(u = 0 \/ u = 1) THEN Msg("u", u, 0, 1)
    ELSE IF ~(0 <= w /\ w <= m - 1) THEN Msg("w", w, 0, m - 1)
    ELSE IF ~(0 <= k /\ k <= 11) THEN Msg("k", k, 0, 11)
    ELSE IF ~(0 <= z /\ z <= m - 2) THEN Msg("z", z, 0, m - 2)
    ELSE NoneStr

(***************************************************************************)
(* Pqubit.__init__                                                         *)
(***************************************************************************)
Pqubit(m, u, w, k, z, assert_valid) ==
    LET check_str == check_if_not_valid(m, u, w, k, z)
        obj(valid, str) ==
            [cls |-> "Pqubit", m |-> m, u |-> u, w |-> w, k |-> k, z |-> z,
             valid_coord |-> valid, check_str |-> str]
    IN  IF assert_valid
        THEN IF check_str # NoneStr
             THEN Raised("ValueError", check_str)
             ELSE Returned("Pqubit", obj(TRUE, NoAttr), 0)
        ELSE IF check_str # NoneStr
             THEN Returned("Pqubit", obj(FALSE, check_str), 0)
             ELSE Returned("Pqubit", obj(TRUE, NoneStr), 0)

(***************************************************************************)
(* Pqubit.__eq__                                                           *)
(***************************************************************************)
eq(a, b) ==
    /\ a.m = b.m
    /\ a.u = b.u
    /\ a.w = b.w
    /\ a.k = b.k
    /\ a.z = b.z

(***************************************************************************)
(* Pqubit.none_if_invalid                                                  *)
(***************************************************************************)
\* none_if_invalid that returns the address whatever its flag
none_if_invalid_self(q) == Returned("Pqubit", q, 0)

none_if_invalid(q) ==
    IF q.valid_coord THEN Returned("Pqubit", q, 0)
    ELSE Returned("None", NoObj, 0)

(***************************************************************************)
(* Pqubit.to_linear                                                        *)
(***************************************************************************)
\* to_linear with the stride of k taken as m instead of m - 1
to_linear_stride(q) ==
    IF q.valid_coord
    THEN Returned("int", NoObj, q.z + q.m * (q.k + 12 * (q.w + q.m * q.u)))
    ELSE Raised("RuntimeError", q.check_str)

\* to_linear that does not look at the flag
to_linear_unchecked(q) ==
    Returned("int", NoObj, q.z + (q.m - 1) * (q.k + 12 * (q.w + q.m * q.u)))

\* to_linear that raises the exception class of the constructor
to_linear_value_error(q) ==
    IF q.valid_coord
    THEN Returned("int", NoObj, q.z + (q.m - 1) * (q.k + 12 * (q.w + q.m * q.u)))
    ELSE IF q.check_str = NoAttr
         THEN Raised("AttributeError", NoAttr)
         ELSE Raised("ValueError", q.check_str)

to_linear(q) ==
    IF q.valid_coord
    THEN Returned("int", NoObj, q.z + (q.m - 1) * (q.k + 12 * (q.w + q.m * q.u)))
    ELSE IF q.check_str = NoAttr
         THEN Raised("AttributeError", NoAttr)
         ELSE Raised("RuntimeError", q.check_str)

is_vert_coord(q) == q.u = 0

is_horz_coord(q) == q.u = 1

(***************************************************************************)
(* vert2horz, horz2vert: (w2, k02, z2) of the K_44 counterpart             *)
(***************************************************************************)
\* vert2horz with the factor 2 of the raw y coordinate dropped
vert2horz_y(w, k) ==
    LET xv == 3 * w + (k \div 4)
        yv == 2 + ((k \div 4) % 3)
        z2 == (xv - 1) \div 3
        w2 == yv \div 3
        k02 == (yv % 3) * 4
    IN  <<w2, k02, z2>>

vert2horz(w, k) ==
    LET xv == 3 * w + (k \div 4)
        yv == 2 + ((2 * (k \div 4)) % 3)
        z2 == (xv - 1) \div 3
        w2 == yv \div 3
        k02 == (yv % 3) * 4
    IN  <<w2, k02, z2>>

\* horz2vert with k02 reduced modulo 4 instead of modulo 3
horz2vert_mod4(w, k) ==
    LET xh == 1 + ((2 * ((k \div 4) + 2)) % 3)
        yh == 3 * w + (k \div 4)
        z2 == (yh - 2) \div 3
        w2 == xh \div 3
        k02 == (xh % 4) * 4
    IN  <<w2, k02, z2>>

horz2vert(w, k) ==
    LET xh == 1 + ((2 * ((k \div 4) + 2)) % 3)
        yh == 3 * w + (k \div 4)
        z2 == (yh - 2) \div 3
        w2 == xh \div 3
        k02 == (xh % 3) * 4
    IN  <<w2, k02, z2>>

(***************************************************************************)
(* internal_coupling.  A Python list index i is legal for                  *)
(* -len <= i < len and counts from the end when negative; any other index  *)
(* raises IndexError.                                                      *)
(***************************************************************************)
IndexOK(i) == -Len(Pegasus0Shift) <= i /\ i < Len(Pegasus0Shift)

ShiftAt(i) ==
    Pegasus0Shift[(IF i < 0 THEN i + Len(Pegasus0Shift) ELSE i) + 1]

\* internal_coupling with the two corrections applied to the coordinates
\* they come from (w - d, j, z + d), not exchanged
internal_coupling_unswapped(u, w, k, z, j) ==
    IF u = 0
    THEN IF IndexOK(k \div 2) /\ IndexOK(6 + (j \div 2))
         THEN LET d1 == IF j < ShiftAt(k \div 2) THEN 1 ELSE 0
                  d2 == IF k < ShiftAt(6 + (j \div 2)) THEN 1 ELSE 0
              IN  [raised |-> FALSE, t |-> <<w - d2, j, z + d1>>]
         ELSE [raised |-> TRUE, t |-> <<0, 0, 0>>]
    ELSE IF IndexOK(j \div 2) /\ IndexOK(6 + (k \div 2))
         THEN LET d1 == IF k < ShiftAt(j \div 2) THEN 1 ELSE 0
                  d2 == IF j < ShiftAt(6 + (k \div 2)) THEN 1 ELSE 0
              IN  [raised |-> FALSE, t |-> <<w - d1, j, z + d2>>]
         ELSE [raised |-> TRUE, t |-> <<0, 0, 0>>]

\* internal_coupling with the vertical formula used for both orientations
internal_coupling_one_branch(u, w, k, z, j) ==
    IF IndexOK(k \div 2) /\ IndexOK(6 + (j \div 2))
    THEN LET d1 == IF j < ShiftAt(k \div 2) THEN 1 ELSE 0
             d2 == IF k < ShiftAt(6 + (j \div 2)) THEN 1 ELSE 0
         IN  [raised |-> FALSE, t |-> <<z + d1, j, w - d2>>]
    ELSE [raised |-> TRUE, t |-> <<0, 0, 0>>]

\* internal_coupling with the horizontal corrections read from the table
\* entries of the vertical formula
internal_coupling_same_entries(u, w, k, z, j) ==
    IF u = 0
    THEN IF IndexOK(k \div 2) /\ IndexOK(6 + (j \div 2))
         THEN LET d1 == IF j < ShiftAt(k \div 2) THEN 1 ELSE 0
                  d2 == IF k < ShiftAt(6 + (j \div 2)) THEN 1 ELSE 0
              IN  [raised |-> FALSE, t |-> <<z + d1, j, w - d2>>]
         ELSE [raised |-> TRUE, t |-> <<0, 0, 0>>]
    ELSE IF IndexOK(k \div 2) /\ IndexOK(6 + (j \div 2))
         THEN LET d1 == IF j < ShiftAt(k \div 2) THEN 1 ELSE 0
                  d2 == IF k < ShiftAt(6 + (j \div 2)) THEN 1 ELSE 0
              IN  [raised |-> FALSE, t |-> <<z + d2, j, w - d1>>]
         ELSE [raised |-> TRUE, t |-> <<0, 0, 0>>]

internal_coupling(u, w, k, z, j) ==
    IF u = 0
    THEN IF IndexOK(k \div 2) /\ IndexOK(6 + (j \div 2))
         THEN LET d1 == IF j < ShiftAt(k \div 2) THEN 1 ELSE 0
                  d2 == IF k < ShiftAt(6 + (j \div 2)) THEN 1 ELSE 0
              IN  [raised |-> FALSE, t |-> <<z + d1, j, w - d2>>]
         ELSE [raised |-> TRUE, t |-> <<0, 0, 0>>]
    ELSE IF IndexOK(j \div 2) /\ IndexOK(6 + (k \div 2))
         THEN LET d1 == IF k < ShiftAt(j \div 2) THEN 1 ELSE 0
                  d2 == IF j < ShiftAt(6 + (k \div 2)) THEN 1 ELSE 0
              IN  [raised |-> FALSE, t |-> <<z + d2, j, w - d1>>]
         ELSE [raised |-> TRUE, t |-> <<0, 0, 0>>]

(***************************************************************************)
(* The coupling methods of Pqubit.                                         *)
(***************************************************************************)
\* conn_external that builds its result in the mode its input was built in
conn_external_inherit(q, dz, kwargs) ==
    Pqubit(q.m, q.u, q.w, q.k, q.z + dz,
           IF q.check_str # NoAttr THEN FALSE ELSE assert_valid_of(kwargs))

\* conn_external that refuses an address flagged invalid
conn_external_checked(q, dz, kwargs) ==
    IF q.valid_coord
    THEN Pqubit(q.m, q.u, q.w, q.k, q.z + dz, assert_valid_of(kwargs))
    ELSE Raised("RuntimeError", q.check_str)

\* conn_external that never validates at the call
conn_external_deferred(q, dz, kwargs) ==
    Pqubit(q.m, q.u, q.w, q.k, q.z + dz, FALSE)

\* conn_external that keeps z within [0, m - 2]
conn_external_clamp(q, dz, kwargs) ==
    LET z2 == IF q.z + dz > q.m - 2 THEN q.m - 2
              ELSE IF q.z + dz < 0 THEN 0 ELSE q.z + dz
    IN  Pqubit(q.m, q.u, q.w, q.k, z2, assert_valid_of(kwargs))

conn_external(q, dz, kwargs) ==
    Pqubit(q.m, q.u, q.w, q.k, q.z + dz, assert_valid_of(kwargs))

\* conn_odd that moves to the next slot whatever the parity
conn_odd_next(q, kwargs) ==
    Pqubit(q.m, q.u, q.w, q.k + 1, q.z, assert_valid_of(kwargs))

\* conn_odd with the two branches exchanged
conn_odd_swapped(q, kwargs) ==
    LET k2 == IF q.k % 2 = 0 THEN q.k - 1 ELSE q.k + 1
    IN  Pqubit(q.m, q.u, q.w, k2, q.z, assert_valid_of(kwargs))

conn_odd(q, kwargs) ==
    LET k2 == IF q.k % 2 = 0 THEN q.k + 1 ELSE q.k - 1
    IN  Pqubit(q.m, q.u, q.w, k2, q.z, assert_valid_of(kwargs))

conn_k44(q, dk, kwargs) ==
    LET t == IF is_vert_coord(q) THEN vert2horz(q.w, q.k) ELSE horz2vert(q.w, q.k)
        w2 == t[1]
        k02 == t[2]
        z2 == t[3]
    IN  Pqubit(q.m, 1 - q.u, w2, k02 + dk, z2, assert_valid_of(kwargs))

\* conn_internal without the reduction of the target slot modulo 12
conn_internal_no_mod(q, dk) ==
    LET t == IF is_vert_coord(q) THEN vert2horz(q.w, q.k) ELSE horz2vert(q.w, q.k)
        k0_cluster == t[2]
        j == k0_cluster + dk
        c == internal_coupling(q.u, q.w, q.k, q.z, j)
    IN  IF c.raised THEN Raised("IndexError", NoneStr)
        ELSE Pqubit(q.m, 1 - q.u, c.t[1], c.t[2], c.t[3], TRUE)

\* conn_internal that builds its result without validation
conn_internal_non_strict(q, dk) ==
    LET t == IF is_vert_coord(q) THEN vert2horz(q.w, q.k) ELSE horz2vert(q.w, q.k)
        k0_cluster == t[2]
        j == (k0_cluster + dk) % 12
        c == internal_coupling(q.u, q.w, q.k, q.z, j)
    IN  IF c.raised THEN Raised("IndexError", NoneStr)
        ELSE Pqubit(q.m, 1 - q.u, c.t[1], c.t[2], c.t[3], FALSE)

conn_internal(q, dk) ==
    LET t == IF is_vert_coord(q) THEN vert2horz(q.w, q.k) ELSE horz2vert(q.w, q.k)
        k0_cluster == t[2]
        j == (k0_cluster + dk) % 12
        c == internal_coupling(q.u, q.w, q.k, q.z, j)
    IN  IF c.raised THEN Raised("IndexError", NoneStr)
        ELSE Pqubit(q.m, 1 - q.u, c.t[1], c.t[2], c.t[3], TRUE)

conn_internal_abs(q, j, kwargs) ==
    LET c == internal_coupling(q.u, q.w, q.k, q.z, j)
    IN  IF c.raised THEN Raised("IndexError", NoneStr)
        ELSE Pqubit(q.m, 1 - q.u, c.t[1], c.t[2], c.t[3], assert_valid_of(kwargs))

(***************************************************************************)
(* test_pqubit: q1 is constructed, then eight calls, each on the result of *)
(* the one before.  tpc is the number of statements of test_pqubit the     *)
(* calls made so far are: 0 when they are not a run of the test, -1 when   *)
(* a statement of the test raised.                                         *)
(***************************************************************************)
Call(op, args, kwargs) == [op |-> op, args |-> args, kwargs |-> kwargs]

test_pqubit ==
    << Call("__init__", <<3, 0, 0, 2, 0>>, "{}"),
       Call("conn_external", <<1>>, "{}"),
       Call("conn_internal", <<-4>>, "{}"),
       Call("conn_internal", <<3>>, "{}"),
       Call("conn_odd", <<>>, "{}"),
       Call("conn_internal", <<-2>>, "{}"),
       Call("conn_internal", <<0>>, "{}"),
       Call("conn_internal", <<-5>>, "{}"),
       Call("conn_internal", <<-2>>, "{}") >>

\* the position in test_pqubit after call c, with outcome r, made at
\* position pc
test_next(pc, c, r) ==
    IF pc >= 0 /\ pc < Len(test_pqubit) /\ c = test_pqubit[pc + 1]
    THEN IF r.kind = "Pqubit" THEN pc + 1 ELSE -1
    ELSE 0

(***************************************************************************)
(* The state machine.                                                      *)
(***************************************************************************)
\* objects the caller goes on with: the coordinates stay among the values
\* the constructor is called with
InBox(q) ==
    /\ q.m \in SizeInputs
    /\ q.u \in -1..2
    /\ q.w \in PerpInputs(q.m)
    /\ q.k \in SlotInputs
    /\ q.z \in ParInputs(q.m)

Init ==
    /\ Pegasus0Shift = ShiftTable
    /\ \E m \in SizeInputs, u \in OrientationInputs, k \in SlotInputs,
          kwargs \in KwargsInputs :
         \E w \in PerpInputs(m), z \in ParInputs(m) :
            LET c == Call("__init__", <<m, u, w, k, z>>, kwargs)
                r == Pqubit(m, u, w, k, z, assert_valid_of(kwargs))
            IN  /\ call = c
                /\ ret = r
                /\ self = r.obj
                /\ recv = NoObj
                /\ tpc = test_next(0, c, r)

\* a call that writes its result into the receiver instead of leaving the
\* receiver as it was
Done_in_place(c, r) ==
    /\ self # NoObj
    /\ ret.kind \notin Exceptions
    /\ r.kind = "Pqubit" => InBox(r.obj)
    /\ call' = c
    /\ recv' = IF r.kind = "Pqubit" THEN r.obj ELSE self
    /\ ret' = r
    /\ self' = IF r.kind = "Pqubit" THEN r.obj ELSE self
    /\ tpc' = test_next(tpc, c, r)
    /\ UNCHANGED Pegasus0Shift

\* the call c on self has outcome r
Done(c, r) ==
    /\ self # NoObj
    /\ ret.kind \notin Exceptions
    /\ r.kind = "Pqubit" => InBox(r.obj)
    /\ call' = c
    /\ recv' = self
    /\ ret' = r
    /\ self' = IF r.kind = "Pqubit" THEN r.obj ELSE self
    /\ tpc' = test_next(tpc, c, r)
    /\ UNCHANGED Pegasus0Shift

ToLinear == Done(Call("to_linear", <<>>, "{}"), to_linear(self))

NoneIfInvalid == Done(Call("none_if_invalid", <<>>, "{}"), none_if_invalid(self))

IsVertCoord ==
    Done(Call("is_vert_coord", <<>>, "{}"),
         Returned("bool", NoObj, IF is_vert_coord(self) THEN 1 ELSE 0))

IsHorzCoord ==
    Done(Call("is_horz_coord", <<>>, "{}"),
         Returned("bool", NoObj, IF is_horz_coord(self) THEN 1 ELSE 0))

ConnExternal ==
    \E dz \in DzInputs, kwargs \in KwargsInputs :
        Done(Call("conn_external", <<dz>>, kwargs), conn_external(self, dz, kwargs))

ConnOdd ==
    \E kwargs \in KwargsInputs :
        Done(Call("conn_odd", <<>>, kwargs), conn_odd(self, kwargs))

ConnK44 ==
    \E dk \in DkClusterInputs, kwargs \in KwargsInputs :
        Done(Call("conn_k44", <<dk>>, kwargs), conn_k44(self, dk, kwargs))

ConnInternal ==
    \E dk \in DkInputs :
        Done(Call("conn_internal", <<dk>>, "{}"), conn_internal(self, dk))

ConnInternalAbs ==
    \E j \in JInputs, kwargs \in KwargsInputs :
        Done(Call("conn_internal_abs", <<j>>, kwargs), conn_internal_abs(self, j, kwargs))

Next ==
    \/ ToLinear
    \/ NoneIfInvalid
    \/ IsVertCoord
    \/ IsHorzCoord
    \/ ConnExternal
    \/ ConnOdd
    \/ ConnK44
    \/ ConnInternal
    \/ ConnInternalAbs

Spec == Init /\ [][Next]_vars

TypeOK ==
    /\ Pegasus0Shift = ShiftTable
    /\ self = NoObj \/ InBox(self)
    /\ tpc \in -1..Len(test_pqubit)

(***************************************************************************)
(* Vocabulary of the properties.                                           *)
(***************************************************************************)
\* the five range rules of an address
RangeOK(m, u, w, k, z) ==
    /\ m >= 1
    /\ u \in {0, 1}
    /\ 0 <= w /\ w <= m - 1
    /\ 0 <= k /\ k <= 11
    /\ 0 <= z /\ z <= m - 2

InRange(q) == RangeOK(q.m, q.u, q.w, q.k, q.z)

Coords(q) == <<q.u, q.w, q.k, q.z>>

CouplingOps ==
    {"conn_external", "conn_odd", "conn_k44", "conn_internal", "conn_internal_abs"}

\* the valid addresses (u, w, k, z) of size M
ValidCoords(M) ==
    {<<u, w, k, z>> : u \in {0, 1}, w \in 0..(M - 1), k \in 0..11, z \in 0..(M - 2)}

\* the linear index of the valid address a of size M
LinearOf(M, a) == to_linear(Pqubit(M, a[1], a[2], a[3], a[4], TRUE).obj).val

(***************************************************************************)
(* C1.  For every size M >= 2, to_linear on the valid addresses of size M  *)
(* is injective and its values are exactly the integers 0 .. 24*M*(M-1)-1: *)
(* the index returned for a valid address lies in that interval, no other  *)
(* valid address of the size has it, and every integer of the interval is  *)
(* the index of a valid address.                                           *)
(***************************************************************************)
C1_ToLinearBijective ==
    (call.op = "to_linear" /\ InRange(recv) /\ recv.m >= 2) =>
        LET M == recv.m
            top == 24 * M * (M - 1)
        IN  /\ ret.kind = "int"
            /\ 0 <= ret.val /\ ret.val < top
            /\ \A a \in ValidCoords(M) :
                  LinearOf(M, a) = ret.val => a = Coords(recv)
            /\ {LinearOf(M, a) : a \in ValidCoords(M)} = 0..(top - 1)

\* to_linear returned the last index of a size-3 topology
C1_Witness ==
    /\ call.op = "to_linear"
    /\ recv.m = 3
    /\ ret.kind = "int"
    /\ ret.val = 143

(***************************************************************************)
(* C2.  The run of test_pqubit, from the strict address (3, 0, 0, 2, 0)    *)
(* through external(+1), internal(-4), internal(+3), odd(), internal(-2),  *)
(* internal(0), internal(-5), internal(-2): no statement raises, and after *)
(* the last one the address equals the first in all five fields.           *)
(***************************************************************************)
C2_TestCycleCloses ==
    /\ tpc # -1
    /\ tpc = Len(test_pqubit) =>
          /\ ret.kind = "Pqubit"
          /\ self.m = 3 /\ self.u = 0 /\ self.w = 0 /\ self.k = 2 /\ self.z = 0
          /\ eq(self, Pqubit(3, 0, 0, 2, 0, TRUE).obj)

\* all nine statements of test_pqubit have run
C2_Witness == tpc = Len(test_pqubit) /\ call = Call("conn_internal", <<-2>>, "{}")

(***************************************************************************)
(* C3.  The parity-corrected coupling of (u, w, k, z) to target slot j,    *)
(* as internal_abs returns it.  With, for Vertical,                        *)
(*   d1 = [j < shift_table[k div 2]], d2 = [k < shift_table[6 + j div 2]]  *)
(* and, for Horizontal,                                                    *)
(*   d1 = [k < shift_table[j div 2]], d2 = [j < shift_table[6 + k div 2]]. *)
(***************************************************************************)
Bit(b) == IF b THEN 1 ELSE 0

C3_D1(u, k, j) ==
    IF u = 0 THEN Bit(j < ShiftTable[(k \div 2) + 1])
    ELSE Bit(k < ShiftTable[(j \div 2) + 1])

C3_D2(u, k, j) ==
    IF u = 0 THEN Bit(k < ShiftTable[6 + (j \div 2) + 1])
    ELSE Bit(j < ShiftTable[6 + (k \div 2) + 1])

\* internal_abs was called with a target slot in [0, 11] on an address
\* whose orientation and slot are in range
C3_Case ==
    /\ call.op = "conn_internal_abs"
    /\ call.args[1] \in 0..11
    /\ recv.u \in {0, 1}
    /\ recv.k \in 0..11

\* the correction subtracted (Sub) and the one added (Add)
C3_Sub == IF recv.u = 0 THEN C3_D2(recv.u, recv.k, call.args[1])
          ELSE C3_D1(recv.u, recv.k, call.args[1])

C3_Add == IF recv.u = 0 THEN C3_D1(recv.u, recv.k, call.args[1])
          ELSE C3_D2(recv.u, recv.k, call.args[1])

\* C3 as claimed: the result has the opposite orientation and slot j, its
\* perp_offset is the input's perp_offset minus a correction and its
\* parallel_offset the input's parallel_offset plus a correction:
\* (w2, k2, z2) = (w - d2, j, z + d1) for Vertical, (w - d1, j, z + d2)
\* for Horizontal.
C3_AsClaimed ==
    (C3_Case /\ ret.kind = "Pqubit") =>
        /\ ret.obj.u = 1 - recv.u
        /\ ret.obj.k = call.args[1]
        /\ ret.obj.w = recv.w - C3_Sub
        /\ ret.obj.z = recv.z + C3_Add

\* C3 amended: the result has the opposite orientation and slot j; the two
\* tile coordinates change places: its perp_offset is the input's
\* parallel_offset plus a correction and its parallel_offset the input's
\* perp_offset minus a correction: (w2, k2, z2) = (z + d1, j, w - d2) for
\* Vertical, (z + d2, j, w - d1) for Horizontal.  Built non-strict the
\* result is always returned; built strict it is returned or refused.
C3_InternalCouplingSwaps ==
    C3_Case =>
        /\ call.kwargs = "assert_valid=False" => ret.kind = "Pqubit"
        /\ ret.kind \in {"Pqubit", "ValueError"}
        /\ ret.kind = "Pqubit" =>
              /\ ret.obj.m = recv.m
              /\ ret.obj.u = 1 - recv.u
              /\ ret.obj.k = call.args[1]
              /\ ret.obj.w = recv.z + C3_Add
              /\ ret.obj.z = recv.w - C3_Sub

\* a horizontal address coupled with both corrections set
C3_Witness ==
    /\ C3_Case
    /\ recv.u = 1
    /\ ret.kind = "Pqubit"
    /\ C3_Add = 1 /\ C3_Sub = 1
    /\ ret.obj.w = recv.z + 1
    /\ ret.obj.z = recv.w - 1
    /\ recv.w # recv.z + 2

(***************************************************************************)
(* C4.  For every valid address a and every dk in 0..3, internal_cluster   *)
(* (conn_k44) and internal (conn_internal) agree: both return the same     *)
(* address or both fail.                                                   *)
(***************************************************************************)
C4_ClusterAgreesWithInternal ==
    (/\ call.op = "conn_k44"
     /\ call.kwargs = "{}"
     /\ call.args[1] \in 0..3
     /\ InRange(recv) /\ recv.valid_coord /\ recv.m >= 2) =>
        LET other == conn_internal(recv, call.args[1])
        IN  IF ret.kind = "Pqubit"
            THEN other.kind = "Pqubit" /\ eq(ret.obj, other.obj)
            ELSE other.kind # "Pqubit"

(***************************************************************************)
(* C5.  Round trip of the tile geometry on slots 0, 4, 8: conn_k44 with    *)
(* dk = 0 returns (w2, k0) of vert2horz(w, k) on a vertical address and of *)
(* horz2vert(w, k) on a horizontal one; the opposite transform is then     *)
(* applied to (w2, k0).                                                    *)
(***************************************************************************)
C5_Case ==
    /\ call.op = "conn_k44"
    /\ call.args[1] = 0
    /\ ret.kind = "Pqubit"
    /\ recv.u \in {0, 1}
    /\ 0 <= recv.w /\ recv.w <= recv.m - 1
    /\ recv.k \in {0, 4, 8}

C5_Back ==
    IF recv.u = 0 THEN horz2vert(ret.obj.w, ret.obj.k)
    ELSE vert2horz(ret.obj.w, ret.obj.k)

\* C5 as claimed: the opposite transform returns w and k as its first two
\* components.
C5_AsClaimed ==
    C5_Case => (C5_Back[1] = recv.w /\ C5_Back[2] = recv.k)

\* C5 amended: the opposite transform returns k as its second component;
\* its first component does not depend on w: after vert2horz then
\* horz2vert it is 1 for k = 0 and 0 for k = 4, 8, after horz2vert then
\* vert2horz it is 1 for k = 0, 4 and 0 for k = 8.
C5_SlotRoundTrip ==
    C5_Case =>
        /\ C5_Back[2] = recv.k
        /\ C5_Back[1] = IF recv.u = 0
                        THEN (IF recv.k = 0 THEN 1 ELSE 0)
                        ELSE (IF recv.k = 8 THEN 0 ELSE 1)

\* a round trip from perp_offset 2 that returns the slot and not the offset
C5_Witness ==
    /\ C5_Case
    /\ recv.u = 0
    /\ recv.w = 2
    /\ C5_Back[2] = recv.k
    /\ C5_Back[1] # recv.w

(***************************************************************************)
(* C6.  Strict construction (the default) succeeds exactly when all five   *)
(* range rules hold, and then returns the address with the five values,    *)
(* flagged valid; otherwise it raises and no address is produced.  So it   *)
(* fails for every size 0 or 1 and for slot 12 and slot -1.                *)
(***************************************************************************)
C6_StrictConstruction ==
    (call.op = "__init__" /\ call.kwargs = "{}") =>
        LET a == call.args
        IN  /\ IF RangeOK(a[1], a[2], a[3], a[4], a[5])
               THEN /\ ret.kind = "Pqubit"
                    /\ self = ret.obj
                    /\ ret.obj.valid_coord
                    /\ <<self.m, self.u, self.w, self.k, self.z>> = a
               ELSE /\ ret.kind = "ValueError"
                    /\ ret.obj = NoObj
                    /\ self = NoObj
            /\ (a[1] \in {0, 1} \/ a[4] \in {-1, 12}) => ret.kind = "ValueError"

\* strict construction with size 1 and every other value the least possible
C6_Witness ==
    /\ call = Call("__init__", <<1, 0, 0, 0, 0>>, "{}")
    /\ ret.kind = "ValueError"
    /\ self = NoObj

(***************************************************************************)
(* C7.  Non-strict construction returns an address for every 5-tuple,      *)
(* flagged invalid exactly when a range rule is violated; none_if_invalid  *)
(* (collapse_if_invalid) returns the address itself when it is flagged     *)
(* valid and None when it is flagged invalid.                              *)
(***************************************************************************)
C7_NonStrictConstruction ==
    /\ (call.op = "__init__" /\ call.kwargs = "assert_valid=False") =>
          LET a == call.args
          IN  /\ ret.kind = "Pqubit"
              /\ self = ret.obj
              /\ <<self.m, self.u, self.w, self.k, self.z>> = a
              /\ self.valid_coord <=> RangeOK(a[1], a[2], a[3], a[4], a[5])
    /\ call.op = "none_if_invalid" =>
          IF recv.valid_coord
          THEN ret.kind = "Pqubit" /\ ret.obj = recv
          ELSE ret.kind = "None" /\ ret.obj = NoObj

\* none_if_invalid on an address built non-strict with slot 12
C7_Witness ==
    /\ call.op = "none_if_invalid"
    /\ recv.k = 12
    /\ RangeOK(recv.m, recv.u, recv.w, 0, recv.z)
    /\ ~recv.valid_coord
    /\ ret.kind = "None"

(***************************************************************************)
(* C8.  to_linear on an address flagged invalid raises, and the exception  *)
(* carries the violation message stored at construction; on an address     *)
(* flagged valid it returns an index.                                      *)
(***************************************************************************)
C8_ToLinearChecksFlag ==
    call.op = "to_linear" =>
        IF recv.valid_coord
        THEN ret.kind = "int"
        ELSE /\ ret.kind \in Exceptions
             /\ ret.msg = recv.check_str
             /\ ret.msg = check_if_not_valid(recv.m, recv.u, recv.w, recv.k, recv.z)
             /\ ret.msg \notin {NoneStr, NoAttr}

\* to_linear on an address flagged invalid for its slot
C8_Witness ==
    /\ call.op = "to_linear"
    /\ ~recv.valid_coord
    /\ ret.kind = "RuntimeError"
    /\ ret.msg = Msg("k", 12, 0, 11)

(***************************************************************************)
(* C9.  The validation mode of the result of a coupling call made without  *)
(* overriding arguments.  An address built with assert_valid=False carries *)
(* the attribute _check_str, one built strict does not.                    *)
(***************************************************************************)
NonStrict(q) == q.check_str # NoAttr

C9_Case == call.op \in CouplingOps /\ call.kwargs = "{}"

\* the slot conn_odd moves to
OddSlot(k) == IF k % 2 = 0 THEN k + 1 ELSE k - 1

\* C9 as claimed: the result has the validation mode of the input: on a
\* non-strict input an out-of-range result is returned flagged invalid and
\* nothing is raised.
C9_AsClaimed ==
    C9_Case =>
        /\ ret.kind = "Pqubit" => (NonStrict(ret.obj) <=> NonStrict(recv))
        /\ NonStrict(recv) => ret.kind # "ValueError"

\* C9 amended: the result is built strict whatever the mode of the input:
\* a returned address is flagged valid, in range and carries no stored
\* message, and an out-of-range result raises on a strict and on a
\* non-strict input alike (external raises exactly when z + dz is out of
\* range, odd exactly when the paired slot is).
C9_DefaultIsStrict ==
    C9_Case =>
        /\ ret.kind \in {"Pqubit", "ValueError", "IndexError"}
        /\ ret.kind = "Pqubit" =>
              /\ ~NonStrict(ret.obj)
              /\ ret.obj.valid_coord
              /\ InRange(ret.obj)
        /\ call.op = "conn_external" =>
              (ret.kind = "ValueError" <=>
                 ~RangeOK(recv.m, recv.u, recv.w, recv.k, recv.z + call.args[1]))
        /\ call.op = "conn_odd" =>
              (ret.kind = "ValueError" <=>
                 ~RangeOK(recv.m, recv.u, recv.w, OddSlot(recv.k), recv.z))

\* external(+1) raises on a valid address that was built non-strict
C9_Witness ==
    /\ call = Call("conn_external", <<1>>, "{}")
    /\ NonStrict(recv)
    /\ recv.valid_coord
    /\ ret.kind = "ValueError"
    /\ ret.msg.field = "z"

(***************************************************************************)
(* C10.  A coupling call, made without overriding arguments, on an address *)
(* that is flagged invalid.                                                *)
(***************************************************************************)
C10_Case ==
    /\ call.op \in CouplingOps
    /\ call.kwargs = "{}"
    /\ ~recv.valid_coord

\* C10 as claimed: the call fails and returns no neighbour address.
C10_AsClaimed == C10_Case => ret.kind \in Exceptions

\* C10 amended: the call does not look at the flag.  It fails only when
\* the shift table lookup fails or the coordinates it computes violate a
\* range rule, with the violation of the computed coordinates and not the
\* stored one; when they are in range it returns the neighbour, flagged
\* valid.  external returns exactly when z + dz is in range with the
\* other four values; odd always fails.
C10_FlagNotChecked ==
    C10_Case =>
        /\ ret.kind \in {"Pqubit", "ValueError", "IndexError"}
        /\ ret.kind = "Pqubit" => (ret.obj.valid_coord /\ InRange(ret.obj))
        /\ call.op = "conn_external" =>
              LET z2 == recv.z + call.args[1]
              IN  IF RangeOK(recv.m, recv.u, recv.w, recv.k, z2)
                  THEN /\ ret.kind = "Pqubit"
                       /\ Coords(ret.obj) = <<recv.u, recv.w, recv.k, z2>>
                  ELSE /\ ret.kind = "ValueError"
                       /\ ret.msg = check_if_not_valid(recv.m, recv.u, recv.w, recv.k, z2)
        /\ call.op = "conn_odd" => ret.kind = "ValueError"

\* external(+1) from parallel_offset -1 returns a valid neighbour
C10_Witness ==
    /\ call = Call("conn_external", <<1>>, "{}")
    /\ ~recv.valid_coord
    /\ recv.z = -1
    /\ ret.kind = "Pqubit"
    /\ ret.obj.valid_coord
    /\ ret.obj.z = 0

(***************************************************************************)
(* C11.  A coupling call on a valid address, with arguments in their       *)
(* documented ranges.  C11_Computed is the address of the coordinates the  *)
(* call computes, built without validation.                                *)
(***************************************************************************)
C11_Case ==
    /\ call.op \in CouplingOps
    /\ InRange(recv)
    /\ recv.valid_coord
    /\ call.op = "conn_internal_abs" => call.args[1] \in 0..11
    /\ call.op = "conn_internal" => call.args[1] \in -6..5

C11_Computed ==
    LET k0 == IF recv.u = 0 THEN vert2horz(recv.w, recv.k)[2]
              ELSE horz2vert(recv.w, recv.k)[2]
    IN  CASE call.op = "conn_external" ->
               conn_external(recv, call.args[1], "assert_valid=False")
          [] call.op = "conn_odd" -> conn_odd(recv, "assert_valid=False")
          [] call.op = "conn_k44" ->
               conn_k44(recv, call.args[1], "assert_valid=False")
          [] call.op = "conn_internal" ->
               LET c == internal_coupling(recv.u, recv.w, recv.k, recv.z,
                                          (k0 + call.args[1]) % 12)
               IN  Pqubit(recv.m, 1 - recv.u, c.t[1], c.t[2], c.t[3], FALSE)
          [] call.op = "conn_internal_abs" ->
               conn_internal_abs(recv, call.args[1], "assert_valid=False")

\* C11 as claimed: the call never fails; it always returns an address.
C11_AsClaimed == (C11_Case /\ call.kwargs = "{}") => ret.kind = "Pqubit"

\* C11 amended: made without overriding arguments the call validates the
\* computed coordinates itself: it returns the address, flagged valid, when
\* they are in range and raises ValueError with their first violation when
\* they are not (so external(+1) from z = m - 2 raises).  Only a call made
\* with assert_valid=False always returns, flagged invalid exactly when the
\* coordinates are out of range.
C11_FailsAtTheCall ==
    C11_Case =>
        /\ C11_Computed.kind = "Pqubit"
        /\ call.kwargs = "{}" =>
              IF InRange(C11_Computed.obj)
              THEN /\ ret.kind = "Pqubit"
                   /\ ret.obj.valid_coord
                   /\ eq(ret.obj, C11_Computed.obj)
              ELSE /\ ret.kind = "ValueError"
                   /\ ret.msg = C11_Computed.obj.check_str
                   /\ ret.msg.field \in {"w", "z"}
        /\ call.kwargs = "assert_valid=False" =>
              /\ ret.kind = "Pqubit"
              /\ ret.obj.valid_coord <=> InRange(ret.obj)
        /\ (call = Call("conn_external", <<1>>, "{}") /\ recv.z = recv.m - 2) =>
              ret.kind = "ValueError"

\* external(+1) raises at the call on a strictly built address with
\* z = m - 2
C11_Witness ==
    /\ call = Call("conn_external", <<1>>, "{}")
    /\ C11_Case
    /\ ~NonStrict(recv)
    /\ recv.z = recv.m - 2
    /\ ret.kind = "ValueError"
    /\ ret.msg = Msg("z", recv.m - 1, 0, recv.m - 2)

(***************************************************************************)
(* C12.  The violation a construction reports: the message of the          *)
(* ValueError for a strict construction, the stored message for a          *)
(* non-strict one.  C12_Rules lists the five rules in the order size,      *)
(* orientation, perp_offset, slot, parallel_offset.                        *)
(***************************************************************************)
C12_Rules(a) ==
    << [ok |-> a[1] >= 1, msg |-> Msg("m", a[1], 1, 0)],
       [ok |-> a[2] \in {0, 1}, msg |-> Msg("u", a[2], 0, 1)],
       [ok |-> a[3] \in 0..(a[1] - 1), msg |-> Msg("w", a[3], 0, a[1] - 1)],
       [ok |-> a[4] \in 0..11, msg |-> Msg("k", a[4], 0, 11)],
       [ok |-> a[5] \in 0..(a[1] - 2), msg |-> Msg("z", a[5], 0, a[1] - 2)] >>

C12_Reported ==
    IF call.kwargs = "{}" THEN ret.msg ELSE self.check_str

\* When a rule fails the reported violation is that of the first failing
\* rule in the order size, orientation, perp_offset, slot, parallel_offset:
\* it names that field, its value and its range, and no later field.
C12_FirstViolationReported ==
    call.op = "__init__" =>
        LET rules == C12_Rules(call.args)
            failing == {i \in 1..5 : ~rules[i].ok}
        IN  failing # {} =>
               LET first == CHOOSE i \in failing : \A j \in failing : i <= j
               IN  /\ call.kwargs = "{}" => ret.kind = "ValueError"
                   /\ C12_Reported = rules[first].msg
                   /\ C12_Reported.value = call.args[first]

\* orientation, perp_offset, slot and parallel_offset are all out of range
\* and the orientation is reported
C12_Witness ==
    /\ call = Call("__init__", <<3, 2, -1, 12, -1>>, "{}")
    /\ ret.kind = "ValueError"
    /\ ret.msg = Msg("u", 2, 0, 1)

(***************************************************************************)
(* C13.  The exception of to_linear on an address flagged invalid against  *)
(* the exception of the strict construction of the same five values.       *)
(***************************************************************************)
C13_Case == call.op = "to_linear" /\ ~recv.valid_coord

C13_Strict == Pqubit(recv.m, recv.u, recv.w, recv.k, recv.z, TRUE)

\* C13 as claimed: the two errors are of the same kind.
C13_AsClaimed == C13_Case => ret.kind = C13_Strict.kind

\* C13 amended: there are two error kinds: strict construction raises
\* ValueError and to_linear raises RuntimeError; both carry the same
\* violation message.
C13_TwoErrorKinds ==
    /\ C13_Case =>
          /\ ret.kind = "RuntimeError"
          /\ C13_Strict.kind = "ValueError"
          /\ ret.msg = C13_Strict.msg
    /\ (call.op = "__init__" /\ ret.kind \in Exceptions) => ret.kind = "ValueError"

\* to_linear raised on an address whose parallel_offset is m - 1
C13_Witness ==
    /\ C13_Case
    /\ recv.z = recv.m - 1
    /\ ret.kind = "RuntimeError"
    /\ ret.msg.field = "z"
    /\ C13_Strict.kind = "ValueError"

C15_ExternalAddsDz ==
    call.op = "conn_external" =>
        LET z2 == recv.z + call.args[1]
        IN  /\ ret.kind = "Pqubit" =>
                  /\ ret.obj.m = recv.m
                  /\ ret.obj.u = recv.u
                  /\ ret.obj.w = recv.w
                  /\ ret.obj.k = recv.k
                  /\ ret.obj.z = z2
            /\ ret.kind # "Pqubit" =>
                  /\ ret.kind = "ValueError"
                  /\ call.kwargs = "{}"
                  /\ ~RangeOK(recv.m, recv.u, recv.w, recv.k, z2)
            /\ call.kwargs = "assert_valid=False" => ret.kind = "Pqubit"

\* external(+1) from z = m - 2, not validated, returns z = m - 1
C15_Witness ==
    /\ call = Call("conn_external", <<1>>, "assert_valid=False")
    /\ InRange(recv)
    /\ recv.z = recv.m - 2
    /\ ret.kind = "Pqubit"
    /\ ret.obj.z = recv.m - 1
    /\ ~ret.obj.valid_coord

(***************************************************************************)
(* C16.  odd(a) returns an address with the size, orientation, perp_offset *)
(* and parallel_offset of a and slot a.k XOR 1: the slot of the same pair  *)
(* (same k div 2) with the other parity, k + 1 for an even k and k - 1 for *)
(* an odd k.                                                               *)
(***************************************************************************)
C16_OddFlipsSlot ==
    (call.op = "conn_odd" /\ ret.kind = "Pqubit") =>
        /\ ret.obj.m = recv.m
        /\ ret.obj.u = recv.u
        /\ ret.obj.w = recv.w
        /\ ret.obj.z = recv.z
        /\ ret.obj.k \div 2 = recv.k \div 2
        /\ ret.obj.k % 2 = 1 - (recv.k % 2)
        /\ ret.obj.k = IF recv.k % 2 = 0 THEN recv.k + 1 ELSE recv.k - 1

\* odd from slot 3 returns slot 2
C16_Witness ==
    /\ call.op = "conn_odd"
    /\ recv.k = 3
    /\ ret.kind = "Pqubit"
    /\ ret.obj.k = 2

(***************************************************************************)
(* C17.  For every perp_offset w >= 0 and every slot k in [0, 11] the      *)
(* cluster base k0 of vert2horz(w, k) and of horz2vert(w, k) is 0, 4 or 8, *)
(* so conn_k44 with 0 <= dk <= 3 computes a slot in [0, 11]: the slot of a *)
(* returned address is k0 + dk, and a refusal is never about the slot.     *)
(***************************************************************************)
C17_Case ==
    /\ call.op = "conn_k44"
    /\ call.args[1] \in 0..3
    /\ recv.w >= 0
    /\ recv.k \in 0..11

C17_ClusterBase ==
    C17_Case =>
        /\ vert2horz(recv.w, recv.k)[2] \in {0, 4, 8}
        /\ horz2vert(recv.w, recv.k)[2] \in {0, 4, 8}
        /\ ret.kind = "Pqubit" =>
              /\ ret.obj.k \in 0..11
              /\ ret.obj.k - call.args[1] \in {0, 4, 8}
        /\ ret.kind # "Pqubit" => (ret.kind = "ValueError" /\ ret.msg.field # "k")

\* conn_k44(3) on a horizontal address of slot 0..3 returns slot 11
C17_Witness ==
    /\ C17_Case
    /\ call.args[1] = 3
    /\ recv.u = 1
    /\ recv.k \in 0..3
    /\ ret.kind = "Pqubit"
    /\ ret.obj.k = 11

(***************************************************************************)
(* C18.  For every valid address a and every dk, also outside [-6, 5],     *)
(* conn_internal(dk) has the outcome of conn_internal_abs((k0 + dk) mod    *)
(* 12) with k0 the cluster base of a for its orientation: it never refuses *)
(* dk, and dk, dk + 12 and dk - 12 have the same outcome.                  *)
(***************************************************************************)
C18_Case ==
    /\ call.op = "conn_internal"
    /\ InRange(recv)
    /\ recv.valid_coord

C18_K0 ==
    IF recv.u = 0 THEN vert2horz(recv.w, recv.k)[2]
    ELSE horz2vert(recv.w, recv.k)[2]

C18_InternalIsAbsModulo12 ==
    C18_Case =>
        LET dk == call.args[1]
            j == (C18_K0 + dk) % 12
        IN  /\ j \in 0..11
            /\ ret = conn_internal_abs(recv, j, "{}")
            /\ ret.kind \in {"Pqubit", "ValueError"}
            /\ ret.kind = "ValueError" => ret.msg.field \in {"w", "z"}
            /\ ret.kind = "Pqubit" => ret.obj.k = j
            /\ conn_internal(recv, dk + 12) = ret
            /\ conn_internal(recv, dk - 12) = ret

\* conn_internal(6), outside the documented range, wraps to a slot below
\* the cluster base and returns
C18_Witness ==
    /\ C18_Case
    /\ call.args[1] = 6
    /\ C18_K0 = 8
    /\ ret.kind = "Pqubit"
    /\ ret.obj.k = 2

(***************************************************************************)
(* C19.  Internal coupling is symmetric: when b = a.conn_internal_abs(j),  *)
(* built without validation, for a slot of a and a j in [0, 11], then      *)
(* b.conn_internal_abs(a.k), built the same way, has the size,             *)
(* orientation, perp_offset, slot and parallel_offset of a.                *)
(***************************************************************************)
C19_Case ==
    /\ call.op = "conn_internal_abs"
    /\ call.kwargs = "assert_valid=False"
    /\ call.args[1] \in 0..11
    /\ recv.k \in 0..11
    /\ recv.u \in {0, 1}

C19_InternalSymmetric ==
    C19_Case =>
        /\ ret.kind = "Pqubit"
        /\ LET back == conn_internal_abs(ret.obj, recv.k, "assert_valid=False")
           IN  /\ back.kind = "Pqubit"
               /\ eq(back.obj, recv)
               /\ back.obj.m = recv.m /\ back.obj.u = recv.u
               /\ back.obj.w = recv.w /\ back.obj.k = recv.k
               /\ back.obj.z = recv.z

\* a coupling that corrects both coordinates, through an out-of-range
\* intermediate
C19_Witness ==
    /\ C19_Case
    /\ ret.kind = "Pqubit"
    /\ ~ret.obj.valid_coord
    /\ ret.obj.w # recv.z
    /\ ret.obj.z # recv.w
    /\ eq(conn_internal_abs(ret.obj, recv.k, "assert_valid=False").obj, recv)

(***************************************************************************)
(* C20.  Every address a coupling call made with default arguments returns *)
(* satisfies the five range rules and is flagged valid, so to_linear       *)
(* returns an index on it; an address built by validated construction,     *)
(* which is every address reached by default coupling calls from a         *)
(* strictly constructed one, is in range and to_linear never fails on it.  *)
(***************************************************************************)
C20_Case ==
    /\ call.op \in CouplingOps
    /\ call.kwargs = "{}"
    /\ ret.kind = "Pqubit"

C20_DefaultChainStaysValid ==
    /\ C20_Case =>
          /\ self = ret.obj
          /\ InRange(self)
          /\ self.valid_coord
          /\ to_linear(self).kind = "int"
    /\ (self # NoObj /\ ~NonStrict(self)) =>
          (InRange(self) /\ self.valid_coord)
    /\ (call.op = "to_linear" /\ ~NonStrict(recv)) =>
          (ret.kind = "int" /\ ret.val \in 0..(24 * recv.m * (recv.m - 1) - 1))

\* the sixth statement of test_pqubit: five default coupling calls from a
\* strictly constructed address
C20_Witness ==
    /\ tpc = 6
    /\ C20_Case
    /\ call.op = "conn_internal"
    /\ ~NonStrict(self)
    /\ InRange(self)
    /\ to_linear(self).kind = "int"

(***************************************************************************)
(* C21.  conn_odd is a validity-preserving involution: on every valid      *)
(* address a it returns an address that is flagged valid and in range      *)
(* (its slot stays in [0, 11]), that __eq__ tells apart from a, and on     *)
(* which conn_odd returns an address equal to a.                           *)
(***************************************************************************)
C21_Case ==
    /\ call.op = "conn_odd"
    /\ InRange(recv)
    /\ recv.valid_coord

C21_OddIsInvolution ==
    C21_Case =>
        /\ ret.kind = "Pqubit"
        /\ ret.obj.valid_coord
        /\ InRange(ret.obj)
        /\ ret.obj.k \in 0..11
        /\ ~eq(ret.obj, recv)
        /\ LET back == conn_odd(ret.obj, call.kwargs)
           IN  /\ back.kind = "Pqubit"
               /\ back.obj.valid_coord
               /\ eq(back.obj, recv)

\* conn_odd from the last slot, 11, returns slot 10, and from there 11
C21_Witness ==
    /\ C21_Case
    /\ recv.k = 11
    /\ ret.kind = "Pqubit"
    /\ ret.obj.k = 10
    /\ conn_odd(ret.obj, call.kwargs).obj.k = 11
====
